---- MODULE Spec2Model ----
(***************************************************************************)
(* The register file, the video-address translation and the object memory  *)
(* of nes_ppu (lib/inc/nes_ppu.h).                                         *)
(*                                                                         *)
(* ppu is the nes_ppu object: one record field per data member the        *)
(* register operations touch.  _vram and _oam are zero-filled arrays       *)
(* (make_unique<uint8_t[]> value-initialises); _vram is kept as the        *)
(* function of the indices that were stored to, every other index         *)
(* holding 0; _oam likewise, on top of the 256 bytes the last oam_dma       *)
(* copied into it.                                                         *)
(***************************************************************************)
EXTENDS Integers, Sequences, FiniteSets

VARIABLES
    ppu,        \* the nes_ppu object
    crashed,    \* the process died in an out-of-bounds access of _vram
    call,       \* the last operation: [op, val, ret, idx]
    prev,       \* the operation before it
    nops,       \* operations made so far
    last_ctrl,  \* val: byte of the last write_PPUCTRL call; eff: of the last one
                \* made while is_ready(); -1 before the first
    arg,        \* input of a run of SpecTranslate / SpecOam
    oam_hits,   \* SpecOam: how often each OAM index was stored to
    guards,     \* the live nes_ppu_protect objects, innermost last; of each, the
                \* value _protect_register had right before its construction
    hist        \* the calls of a run so far, oldest first (the scenario
                \* specifications keep it; the others leave it empty)

vars == <<ppu, crashed, call, prev, nops, last_ctrl, arg, oam_hits, guards, hist>>

(***************************************************************************)
(* Program constants                                                       *)
(***************************************************************************)
PPU_VRAM_SIZE == \h4000
PPU_OAM_SIZE == \h100
PPUCTRL_BASE_NAME_TABLE_ADDR_MASK == \h3
PPUCTRL_VRAM_ADDR_MASK == \h4
PPUCTRL_BACKGROUND_PATTERN_TABLE_ADDRESS_MASK == \h10
PPUCTRL_SPRITE_SIZE_MASK == \h20
PPUCTRL_NMI_AT_VBLANK_MASK == \h80
PPUMASK_GRAYSCALE == \h1
PPUMASK_SHOW_BACKGROUND == \h8
PPUMASK_SHOW_SPRITES == \h10
PPUSTATUS_LATCH_MASK == \h1f
PPUSTATUS_SPRITE_OVERFLOW == \h20
PPUSTATUS_SPRITE_0_HIT == \h40
PPUSTATUS_VBLANK_START == \h80
\* is_ready(): _master_cycle > nes_ppu_cycle_t(29658)
READY_CYCLE == 29658
PPU_SCREEN_Y == 240
\* a frame of 262 lines without the 21 lines after the post-render line
PPU_SCANLINE_COUNT_NoVblankLines == PPU_SCREEN_Y + 1
PPU_SCANLINE_COUNT == 262
\* dots of a scanline
PPU_SCANLINE_CYCLE == 341
\* the line at whose dot 1 vblank starts: the first after the post-render line
VBLANK_SCANLINE == PPU_SCREEN_Y + 1
\* the pre-render line: the last line of a frame
PRE_RENDER_SCANLINE == PPU_SCANLINE_COUNT - 1

(***************************************************************************)
(* Bounds of the model                                                     *)
(***************************************************************************)
\* operations in one run of Spec
MaxOps == 4
\* nes_ppu_protect objects alive at a time
MaxGuards == 2
\* operations in one run of SpecScroll
MaxSeq == 7
\* PPU cycles of a run of SpecFrame beyond one full frame
FrameExtra == 2
\* write_OAMDATA calls of a run of SpecOam beyond one full period of 256
OamExtra == 2

(***************************************************************************)
(* Fixed-width arithmetic                                                  *)
(***************************************************************************)
U8(n) == n % 256
U16(n) == n % 65536

RECURSIVE BitAnd(_, _)
BitAnd(a, b) ==
    IF a = 0 \/ b = 0 THEN 0
    ELSE (a % 2) * (b % 2) + 2 * BitAnd(a \div 2, b \div 2)

RECURSIVE BitOr(_, _)
BitOr(a, b) ==
    IF a = 0 THEN b
    ELSE IF b = 0 THEN a
    ELSE (IF a % 2 = 1 \/ b % 2 = 1 THEN 1 ELSE 0) + 2 * BitOr(a \div 2, b \div 2)

(***************************************************************************)
(* PPU internal ram                                                        *)
(***************************************************************************)
\* redirect_addr with the special case 0x3f10 = 0x3f00 left out
redirect_addr_NoBackdropMirror(addr) ==
    IF addr >= \h3000 /\ addr < \h3f00 THEN addr - \h1000
    ELSE IF BitAnd(addr, \h3f00) = \h3f00 THEN BitAnd(addr, \hff1f)
    ELSE addr

\* redirect_addr with the name-table mirror subtracting 0x0800
redirect_addr_WrongMirror(addr) ==
    IF addr >= \h3000 /\ addr < \h3f00 THEN addr - \h0800
    ELSE IF BitAnd(addr, \h3f00) = \h3f00
    THEN LET a == BitAnd(addr, \hff1f)
         IN  IF BitAnd(a, \h10) = \h10 THEN BitAnd(a, \hff0f) ELSE a
    ELSE addr

\* void redirect_addr(uint16_t &addr): the value addr holds on return
redirect_addr(addr) ==
    IF addr >= \h3000 /\ addr < \h3f00 THEN addr - \h1000
    ELSE IF BitAnd(addr, \h3f00) = \h3f00
    THEN LET a == BitAnd(addr, \hff1f)
         IN  IF BitAnd(a, \h10) = \h10 THEN BitAnd(a, \hff0f) ELSE a
    ELSE addr

\* whether _vram[i] is an element of the array make_unique allocated
InVram(i) == i >= 0 /\ i < PPU_VRAM_SIZE

\* _vram[i] for an index inside the array
VramAt(p, i) == IF i \in DOMAIN p.vram THEN p.vram[i] ELSE 0

\* what the memory of the system holds at address a, where the PPU does not
\* own it: a different byte at each offset of a page and a different run of
\* bytes in each page
system_ram(a) == (7 * (a % 256) + a \div 256) % 256

\* _oam[i]: the byte last stored to it; if none was since the last oam_dma,
\* the byte that copy put there; if there was no copy either, 0
OamAt(p, i) ==
    IF i \in DOMAIN p.oam THEN p.oam[i]
    ELSE IF p.oam_dma_addr >= 0 THEN system_ram((p.oam_dma_addr + i) % 65536)
    ELSE 0

\* nes_ppu(): both arrays zero-filled, no index stored to yet
EmptyMem == [j \in {} |-> 0]

\* the array with element i set to val
Store(mem, i, val) == [j \in (DOMAIN mem) \cup {i} |-> IF j = i THEN val ELSE mem[j]]

(***************************************************************************)
(* An access of _vram outside its 0x4000 elements is undefined: the byte   *)
(* read is whatever lies behind the array, the byte written lands in       *)
(* memory the array does not own (the neighbouring _oam allocation, or     *)
(* memory the model does not hold), or the process dies.                   *)
(***************************************************************************)
OobReadVals == {\h00, \h5a, \ha5}
OobOamHits == {\h00, \hff}

\* uint8_t read_byte(uint16_t addr): the possible [val, idx, fault]
read_byte(p, addr) ==
    LET idx == redirect_addr(addr)
    IN  IF InVram(idx)
        THEN {[val |-> VramAt(p, idx), idx |-> idx, fault |-> FALSE]}
        ELSE {[val |-> v, idx |-> idx, fault |-> FALSE] : v \in OobReadVals}
             \cup {[val |-> 0, idx |-> idx, fault |-> TRUE]}

\* void write_byte(uint16_t addr, uint8_t val): the possible [ppu, idx, fault]
write_byte(p, addr, val) ==
    LET idx == redirect_addr(addr)
    IN  IF InVram(idx)
        THEN {[ppu |-> [p EXCEPT !.vram = Store(@, idx, val)], idx |-> idx, fault |-> FALSE]}
        ELSE {[ppu |-> p, idx |-> idx, fault |-> FALSE],
              [ppu |-> p, idx |-> idx, fault |-> TRUE]}
             \cup {[ppu |-> [p EXCEPT !.oam = Store(@, k, val)], idx |-> idx, fault |-> FALSE]
                   : k \in OobOamHits}

(***************************************************************************)
(* Registers.  A register operation yields the set of its outcomes         *)
(* [ppu, ret, idx, fault]: the object after the call, the byte returned    *)
(* (0 for void), the index of _vram it accessed (-1 for none) and whether  *)
(* the access killed the process.                                          *)
(***************************************************************************)
Done(p, ret) == {[ppu |-> p, ret |-> ret, idx |-> -1, fault |-> FALSE]}

is_ready(p) == p.master_cycle > READY_CYCLE

set_protect(p, set) == [p EXCEPT !.protect_register = set]

\* nes_ppu_protect(nes_ppu *ppu): the object keeps the pointer _ppu, its only
\* data member, and turns protection on
nes_ppu_protect_ctor(p) == set_protect(p, TRUE)

\* ~nes_ppu_protect(): with _ppu alone to go by, and no operation of nes_ppu
\* that tells whether protection is on, it turns protection off
nes_ppu_protect_dtor(p) == set_protect(p, FALSE)

\* write_latch with the protection test the wrong way round
write_latch_ProtectInverted(p, val) ==
    IF p.protect_register THEN [p EXCEPT !.latch = val] ELSE p

write_latch(p, val) == IF p.protect_register THEN p ELSE [p EXCEPT !.latch = val]

\* write_PPUCTRL without the readiness gate
write_PPUCTRL_Ungated(p, val) ==
    Done([write_latch(p, val) EXCEPT
            !.name_tbl_addr = \h2000 + BitAnd(val, PPUCTRL_BASE_NAME_TABLE_ADDR_MASK) * \h400,
            !.pattern_tbl_addr =
                U16(BitAnd(val, PPUCTRL_BACKGROUND_PATTERN_TABLE_ADDRESS_MASK) * 256),
            !.use_8x16_sprite = BitAnd(val, PPUCTRL_SPRITE_SIZE_MASK) # 0,
            !.ppu_addr_inc = IF BitAnd(val, PPUCTRL_VRAM_ADDR_MASK) # 0 THEN \h20 ELSE 1,
            !.vblank_nmi = BitAnd(val, PPUCTRL_NMI_AT_VBLANK_MASK) # 0], 0)

\* write_PPUCTRL taking the increment from bit 3 instead of bit 2
write_PPUCTRL_WrongIncBit(p, val) ==
    IF ~is_ready(p) THEN Done(p, 0)
    ELSE Done([write_latch(p, val) EXCEPT
            !.name_tbl_addr = \h2000 + BitAnd(val, PPUCTRL_BASE_NAME_TABLE_ADDR_MASK) * \h400,
            !.pattern_tbl_addr =
                U16(BitAnd(val, PPUCTRL_BACKGROUND_PATTERN_TABLE_ADDRESS_MASK) * 256),
            !.use_8x16_sprite = BitAnd(val, PPUCTRL_SPRITE_SIZE_MASK) # 0,
            !.ppu_addr_inc = IF BitAnd(val, \h8) # 0 THEN \h20 ELSE 1,
            !.vblank_nmi = BitAnd(val, PPUCTRL_NMI_AT_VBLANK_MASK) # 0], 0)

write_PPUCTRL(p, val) ==
    IF ~is_ready(p) THEN Done(p, 0)
    ELSE Done([write_latch(p, val) EXCEPT
            !.name_tbl_addr = \h2000 + BitAnd(val, PPUCTRL_BASE_NAME_TABLE_ADDR_MASK) * \h400,
            !.pattern_tbl_addr =
                U16(BitAnd(val, PPUCTRL_BACKGROUND_PATTERN_TABLE_ADDRESS_MASK) * 256),
            !.use_8x16_sprite = BitAnd(val, PPUCTRL_SPRITE_SIZE_MASK) # 0,
            !.ppu_addr_inc = IF BitAnd(val, PPUCTRL_VRAM_ADDR_MASK) # 0 THEN \h20 ELSE 1,
            !.vblank_nmi = BitAnd(val, PPUCTRL_NMI_AT_VBLANK_MASK) # 0], 0)

write_PPUMASK(p, val) ==
    IF ~is_ready(p) THEN Done(p, 0)
    ELSE Done([write_latch(p, val) EXCEPT
            !.show_bg = BitAnd(val, PPUMASK_SHOW_BACKGROUND) # 0,
            !.show_sprites = BitAnd(val, PPUMASK_SHOW_SPRITES) # 0,
            !.gray_scale_mode = BitAnd(val, PPUMASK_GRAYSCALE) # 0], 0)

\* the byte read_PPUSTATUS returns
StatusByte(p) ==
    BitOr(BitOr(BitOr(BitAnd(p.latch, PPUSTATUS_LATCH_MASK),
                      IF p.sprite_0_hit THEN PPUSTATUS_SPRITE_0_HIT ELSE 0),
                IF p.sprite_overflow THEN PPUSTATUS_SPRITE_OVERFLOW ELSE 0),
          IF p.vblank_started THEN PPUSTATUS_VBLANK_START ELSE 0)

\* read_PPUSTATUS that forgets to clear vblank
read_PPUSTATUS_KeepsVblank(p) ==
    LET status == StatusByte(p)
        q == IF ~p.protect_register THEN [p EXCEPT !.addr_latch = 0] ELSE p
    IN  Done(write_latch(q, status), status)

\* read_PPUSTATUS that leaves the write toggle as it is
read_PPUSTATUS_KeepsToggle(p) ==
    LET status == StatusByte(p)
        q == IF ~p.protect_register THEN [p EXCEPT !.vblank_started = FALSE] ELSE p
    IN  Done(write_latch(q, status), status)

\* read_PPUSTATUS that clears the sprite flags along with vblank
read_PPUSTATUS_ClearsAllFlags(p) ==
    LET status == StatusByte(p)
        q == IF ~p.protect_register
             THEN [p EXCEPT !.vblank_started = FALSE, !.sprite_0_hit = FALSE,
                            !.sprite_overflow = FALSE, !.addr_latch = 0]
             ELSE p
    IN  Done(write_latch(q, status), status)

\* read_PPUSTATUS that builds the status byte after clearing the flags
read_PPUSTATUS_StatusAfterClear(p) ==
    LET q == IF ~p.protect_register
             THEN [p EXCEPT !.vblank_started = FALSE, !.addr_latch = 0]
             ELSE p
    IN  Done(write_latch(q, StatusByte(q)), StatusByte(q))

read_PPUSTATUS(p) ==
    LET status == StatusByte(p)
        q == IF ~p.protect_register
             THEN [p EXCEPT !.vblank_started = FALSE, !.addr_latch = 0]
             ELSE p
    IN  Done(write_latch(q, status), status)

write_OAMADDR(p, val) == Done([write_latch(p, val) EXCEPT !.oam_addr = val], 0)

\* write_OAMDATA that does not advance the OAM address
write_OAMDATA_NoIncrement(p, val) ==
    Done([write_latch(p, val) EXCEPT !.oam = Store(@, p.oam_addr, val)], 0)

write_OAMDATA(p, val) ==
    Done([write_latch(p, val) EXCEPT
            !.oam = Store(@, p.oam_addr, val),
            !.oam_addr = U8(@ + 1)], 0)

read_OAMDATA(p) ==
    LET val == OamAt(p, p.oam_addr)
    IN  Done(write_latch(p, val), val)

write_PPUSCROLL(p, val) ==
    IF ~is_ready(p) THEN Done(p, 0)
    ELSE LET q == [write_latch(p, val) EXCEPT !.addr_latch = (@ + 1) % 2]
         IN  Done(IF q.addr_latch = 1 THEN [q EXCEPT !.scroll_x = val]
                  ELSE [q EXCEPT !.scroll_y = val], 0)

\* write_PPUADDR that sets the toggle instead of flipping it
write_PPUADDR_StuckToggle(p, val) ==
    LET q == [write_latch(p, val) EXCEPT !.addr_latch = 1]
    IN  Done([q EXCEPT !.ppu_addr = BitOr(BitAnd(@, \h00ff), U16(val * 256))], 0)

write_PPUADDR(p, val) ==
    LET q == [write_latch(p, val) EXCEPT !.addr_latch = (@ + 1) % 2]
    IN  Done(IF q.addr_latch = 1
             THEN [q EXCEPT !.ppu_addr = BitOr(BitAnd(@, \h00ff), U16(val * 256))]
             ELSE [q EXCEPT !.ppu_addr = BitOr(BitAnd(@, \hff00), val)], 0)

\* write_PPUDATA that advances the video address before it stores the byte
write_PPUDATA_IncBeforeWrite(p, val) ==
    LET q == [write_latch(p, val) EXCEPT !.ppu_addr = U16(@ + p.ppu_addr_inc)]
    IN  {[ppu |-> w.ppu, ret |-> 0, idx |-> w.idx, fault |-> w.fault]
         : w \in write_byte(q, q.ppu_addr, val)}

write_PPUDATA(p, val) ==
    LET q == write_latch(p, val)
    IN  {[ppu |-> IF w.fault THEN w.ppu
                  ELSE [w.ppu EXCEPT !.ppu_addr = U16(@ + q.ppu_addr_inc)],
          ret |-> 0, idx |-> w.idx, fault |-> w.fault]
         : w \in write_byte(q, q.ppu_addr, val)}

read_PPUDATA(p) ==
    {IF r.fault THEN [ppu |-> p, ret |-> 0, idx |-> r.idx, fault |-> TRUE]
     ELSE [ppu |-> write_latch(IF ~p.protect_register
                               THEN [p EXCEPT !.ppu_addr = U16(@ + p.ppu_addr_inc)]
                               ELSE p, r.val),
           ret |-> r.val, idx |-> r.idx, fault |-> FALSE]
     : r \in read_byte(p, p.ppu_addr)}

(***************************************************************************)
(* Palette lookup                                                          *)
(***************************************************************************)
\* uint8_t get_palette_color(bool is_background, uint8_t palette_index_4_bit):
\* palette_addr is computed and not used; both returns read 0x3f00
get_palette_color(p, is_background, palette_index_4_bit) ==
    LET palette_addr == BitOr(IF is_background THEN \h3f00 ELSE \h3f10, palette_index_4_bit)
    IN  IF palette_index_4_bit = 0
        THEN {[ppu |-> p, ret |-> r.val, idx |-> r.idx, fault |-> r.fault]
              : r \in read_byte(p, \h3f00)}
        ELSE {[ppu |-> p, ret |-> r.val, idx |-> r.idx, fault |-> r.fault]
              : r \in read_byte(p, \h3f00)}

(***************************************************************************)
(* OAM DMA                                                                 *)
(***************************************************************************)
\* oam_dma(addr): the 256 bytes at addr .. addr + 0xFF of the memory of the
\* system are copied to _oam[0] .. _oam[0xFF]; the OAM address is left as it
\* was.  The copy is kept as the address it came from (see OamAt).
oam_dma(p, addr) == [p EXCEPT !.oam = EmptyMem, !.oam_dma_addr = addr]

\* write_OAMDMA passing the page byte as the address
write_OAMDMA_NoShift(p, val) == Done(oam_dma(p, val), 0)

write_OAMDMA(p, val) == Done(oam_dma(p, U16(val * 256)), 0)

(***************************************************************************)
(* Construction and power-on                                               *)
(***************************************************************************)
\* init(), as power_on() runs it: counters at 0, flags clear, toggle 0,
\* protection off; inc is the address step it leaves
init(inc) ==
    [name_tbl_addr |-> 0, pattern_tbl_addr |-> 0, ppu_addr_inc |-> inc,
     vblank_nmi |-> FALSE, use_8x16_sprite |-> FALSE,
     show_bg |-> FALSE, show_sprites |-> FALSE, gray_scale_mode |-> FALSE,
     latch |-> 0, sprite_overflow |-> FALSE, vblank_started |-> FALSE,
     sprite_0_hit |-> FALSE,
     oam_addr |-> 0, addr_latch |-> 0, scroll_x |-> 0, scroll_y |-> 0,
     ppu_addr |-> 0, master_cycle |-> 0, scanline_cycle |-> 0, cur_scanline |-> 0,
     protect_register |-> FALSE,
     vram |-> EmptyMem, oam |-> EmptyMem, oam_dma_addr |-> -1]

NoCall == [op |-> "none", val |-> 0, ret |-> 0, idx |-> -1]

\* the address steps the code ever assigns
AddrSteps == {1, \h20}

Init ==
    /\ ppu \in {init(inc) : inc \in AddrSteps}
    /\ crashed = FALSE
    /\ call = NoCall
    /\ prev = NoCall
    /\ nops = 0
    /\ last_ctrl = [val |-> -1, eff |-> -1]
    /\ arg = 0
    /\ oam_hits = EmptyMem
    /\ guards = <<>>
    /\ hist = <<>>

(***************************************************************************)
(* The timing machine, as far as the register file sees it: step_to        *)
(* advances the master cycle counter to count, and on the way step_ppu     *)
(* sets vblank (dot 1 of scanline 241), sets a sprite flag (sprite         *)
(* evaluation) or clears all three (dot 1 of the pre-render line).         *)
(***************************************************************************)
TimingEvents == {"none", "vblank", "sprite0", "overflow", "prerender"}

step_ppu(p, ev) ==
    CASE ev = "vblank" -> [p EXCEPT !.vblank_started = TRUE]
      [] ev = "sprite0" -> [p EXCEPT !.sprite_0_hit = TRUE]
      [] ev = "overflow" -> [p EXCEPT !.sprite_overflow = TRUE]
      [] ev = "prerender" -> [p EXCEPT !.vblank_started = FALSE,
                                       !.sprite_0_hit = FALSE,
                                       !.sprite_overflow = FALSE]
      [] OTHER -> p

\* what the cycle at dot scanline_cycle of line cur_scanline does to the
\* status flags; hit is what sprite evaluation finds on a visible line
dot_event(p, hit) ==
    IF p.scanline_cycle = 1 /\ p.cur_scanline = VBLANK_SCANLINE THEN "vblank"
    ELSE IF p.scanline_cycle = 1 /\ p.cur_scanline = PRE_RENDER_SCANLINE THEN "prerender"
    ELSE IF p.cur_scanline < PPU_SCREEN_Y THEN hit
    ELSE "none"

\* one PPU cycle of the render state: the flags change as the dot says, then
\* the dot, the line and the cycle counter advance
step_cycle(p, hit) ==
    [step_ppu(p, dot_event(p, hit)) EXCEPT
        !.scanline_cycle = (@ + 1) % PPU_SCANLINE_CYCLE,
        !.cur_scanline = IF p.scanline_cycle + 1 = PPU_SCANLINE_CYCLE
                         THEN (@ + 1) % PPU_SCANLINE_COUNT ELSE @,
        !.master_cycle = @ + 1]

step_to(p, count, ev) ==
    IF count > p.master_cycle
    THEN [step_ppu(p, ev) EXCEPT !.master_cycle = count]
    ELSE p

(***************************************************************************)
(* The bytes the bus writes, per port                                      *)
(***************************************************************************)
CtrlVals == {\h04, \hb3}
MaskVals == {\h19}
OamAddrVals == {\hff}
OamDataVals == {\h11}
ScrollVals == {\h05, \h0a}
AddrVals == {\h21, \h3f, \h40}
DataVals == {\h22}
DmaPages == {\h02}
\* the cycle counts the clock driver steps to: the last cycle before
\* readiness and the first ready one
StepTargets == {READY_CYCLE, READY_CYCLE + 1}

(***************************************************************************)
(* Actions: one per operation                                              *)
(***************************************************************************)
\* one call, the max-th of a run at most: the object takes one of the
\* outcomes outs
Call(name, v, outs, max) ==
    /\ ~crashed
    /\ nops < max
    /\ \E o \in outs :
         /\ ppu' = o.ppu
         /\ crashed' = o.fault
         /\ call' = [op |-> name, val |-> v, ret |-> o.ret, idx |-> o.idx]
    /\ prev' = call
    /\ nops' = nops + 1
    /\ UNCHANGED <<arg, oam_hits>>

Op(name, v, outs) ==
    /\ Call(name, v, outs, MaxOps)
    /\ UNCHANGED <<guards, hist>>

WritePPUCTRL ==
    \E v \in CtrlVals : 
        /\ Op("write_PPUCTRL", v, write_PPUCTRL(ppu, v))
        /\ last_ctrl' = [val |-> v, eff |-> IF is_ready(ppu) THEN v ELSE last_ctrl.eff]

WritePPUMASK ==
    \E v \in MaskVals : Op("write_PPUMASK", v, write_PPUMASK(ppu, v)) /\ UNCHANGED last_ctrl

ReadPPUSTATUS ==
    Op("read_PPUSTATUS", 0, read_PPUSTATUS(ppu)) /\ UNCHANGED last_ctrl

WriteOAMADDR ==
    \E v \in OamAddrVals : Op("write_OAMADDR", v, write_OAMADDR(ppu, v)) /\ UNCHANGED last_ctrl

WriteOAMDATA ==
    \E v \in OamDataVals : Op("write_OAMDATA", v, write_OAMDATA(ppu, v)) /\ UNCHANGED last_ctrl

ReadOAMDATA ==
    Op("read_OAMDATA", 0, read_OAMDATA(ppu)) /\ UNCHANGED last_ctrl

WritePPUSCROLL ==
    \E v \in ScrollVals : Op("write_PPUSCROLL", v, write_PPUSCROLL(ppu, v)) /\ UNCHANGED last_ctrl

WritePPUADDR ==
    \E v \in AddrVals : Op("write_PPUADDR", v, write_PPUADDR(ppu, v)) /\ UNCHANGED last_ctrl

WritePPUDATA ==
    \E v \in DataVals : Op("write_PPUDATA", v, write_PPUDATA(ppu, v)) /\ UNCHANGED last_ctrl

ReadPPUDATA ==
    Op("read_PPUDATA", 0, read_PPUDATA(ppu)) /\ UNCHANGED last_ctrl

WriteOAMDMA ==
    \E v \in DmaPages : Op("write_OAMDMA", v, write_OAMDMA(ppu, v)) /\ UNCHANGED last_ctrl

SetProtect ==
    \E b \in BOOLEAN :
        Op("set_protect", IF b THEN 1 ELSE 0, Done(set_protect(ppu, b), 0))
        /\ UNCHANGED last_ctrl

StepTo ==
    \E count \in StepTargets, ev \in TimingEvents :
        /\ count > ppu.master_cycle
        /\ Op("step_to", count, Done(step_to(ppu, count, ev), 0))
        /\ UNCHANGED last_ctrl

Next ==
    \/ WritePPUCTRL
    \/ WritePPUMASK
    \/ ReadPPUSTATUS
    \/ WriteOAMADDR
    \/ WriteOAMDATA
    \/ ReadOAMDATA
    \/ WritePPUSCROLL
    \/ WritePPUADDR
    \/ WritePPUDATA
    \/ ReadPPUDATA
    \/ WriteOAMDMA
    \/ SetProtect
    \/ StepTo

Spec == Init /\ [][Next]_vars

(***************************************************************************)
(* SpecTranslate: redirect_addr applied to every uint16_t, and once more   *)
(* to its own result.                                                      *)
(***************************************************************************)
InitTranslate ==
    /\ ppu = init(1)
    /\ crashed = FALSE
    /\ call = NoCall
    /\ prev = NoCall
    /\ nops = 0
    /\ last_ctrl = [val |-> -1, eff |-> -1]
    /\ arg \in 0 .. 65535
    /\ oam_hits = EmptyMem
    /\ guards = <<>>
    /\ hist = <<>>

Redirect ==
    /\ nops = 0
    /\ call' = [op |-> "redirect_addr", val |-> arg, ret |-> redirect_addr(arg), idx |-> -1]
    /\ prev' = call
    /\ nops' = 1
    /\ UNCHANGED <<ppu, crashed, last_ctrl, arg, oam_hits, guards, hist>>

RedirectAgain ==
    /\ nops = 1
    /\ call' = [op |-> "redirect_addr", val |-> call.ret,
                ret |-> redirect_addr(call.ret), idx |-> -1]
    /\ prev' = call
    /\ nops' = 2
    /\ UNCHANGED <<ppu, crashed, last_ctrl, arg, oam_hits, guards, hist>>

NextTranslate ==
    \/ Redirect
    \/ RedirectAgain

SpecTranslate == InitTranslate /\ [][NextTranslate]_vars

(***************************************************************************)
(* SpecOam: write_OAMADDR(arg.start), then write_OAMDATA(arg.val) again    *)
(* and again, through one full period of the OAM address and beyond.       *)
(***************************************************************************)
OamRunVals == {\ha5}

InitOam ==
    /\ ppu = init(1)
    /\ crashed = FALSE
    /\ call = NoCall
    /\ prev = NoCall
    /\ nops = 0
    /\ last_ctrl = [val |-> -1, eff |-> -1]
    /\ arg \in [start : 0 .. PPU_OAM_SIZE - 1, val : OamRunVals]
    /\ oam_hits = EmptyMem
    /\ guards = <<>>
    /\ hist = <<>>

OamSetAddr ==
    /\ call.op = "none"
    /\ \E o \in write_OAMADDR(ppu, arg.start) :
         /\ ppu' = o.ppu
         /\ call' = [op |-> "write_OAMADDR", val |-> arg.start, ret |-> o.ret, idx |-> o.idx]
    /\ prev' = call
    /\ UNCHANGED <<crashed, nops, last_ctrl, arg, oam_hits, guards, hist>>

OamWrite ==
    /\ call.op # "none"
    /\ nops < PPU_OAM_SIZE + OamExtra
    /\ \E o \in write_OAMDATA(ppu, arg.val) :
         /\ ppu' = o.ppu
         /\ call' = [op |-> "write_OAMDATA", val |-> arg.val, ret |-> o.ret, idx |-> o.idx]
    /\ prev' = call
    /\ nops' = nops + 1
    /\ oam_hits' = Store(oam_hits, ppu.oam_addr,
                         1 + (IF ppu.oam_addr \in DOMAIN oam_hits
                              THEN oam_hits[ppu.oam_addr] ELSE 0))
    /\ UNCHANGED <<crashed, last_ctrl, arg, guards, hist>>

NextOam ==
    \/ OamSetAddr
    \/ OamWrite

SpecOam == InitOam /\ [][NextOam]_vars

(***************************************************************************)
(* SpecGuard: logging code that constructs nes_ppu_protect objects in      *)
(* nested scopes and reads the status register inside them.  The objects   *)
(* are destroyed in the reverse order of their construction.               *)
(***************************************************************************)
Acquire ==
    /\ Len(guards) < MaxGuards
    /\ Call("nes_ppu_protect", Len(guards) + 1, Done(nes_ppu_protect_ctor(ppu), 0), MaxOps)
    /\ guards' = Append(guards, ppu.protect_register)
    /\ UNCHANGED <<last_ctrl, hist>>

\* call.val: 1 if protection was on right before the object destroyed was
\* constructed, 0 if it was off
Release ==
    /\ Len(guards) > 0
    /\ Call("~nes_ppu_protect", IF guards[Len(guards)] THEN 1 ELSE 0,
            Done(nes_ppu_protect_dtor(ppu), 0), MaxOps)
    /\ guards' = SubSeq(guards, 1, Len(guards) - 1)
    /\ UNCHANGED <<last_ctrl, hist>>

NextGuard ==
    \/ Acquire
    \/ Release
    \/ SetProtect
    \/ ReadPPUSTATUS
    \/ StepTo

SpecGuard == Init /\ [][NextGuard]_vars

(***************************************************************************)
(* SpecFrame: the clock driver advances the timing machine cycle by cycle  *)
(* from the first dot of a frame through the whole frame, and the bus      *)
(* reads no register meanwhile.  hist takes an entry for every cycle that  *)
(* raises vblank or brings a status flag down.                             *)
(***************************************************************************)
FrameCycles == PPU_SCANLINE_COUNT * PPU_SCANLINE_CYCLE

SpriteHits == {"none", "sprite0", "overflow"}

\* the status flags that are set in p and clear in q
Fallen(p, q) ==
    {f \in {"vblank_started", "sprite_0_hit", "sprite_overflow"} : p[f] /\ ~q[f]}

StepCycle ==
    /\ ppu.master_cycle < FrameCycles + FrameExtra
    /\ \E hit \in SpriteHits :
         LET q == step_cycle(ppu, hit)
             at == [scanline |-> ppu.cur_scanline, dot |-> ppu.scanline_cycle]
             rise == IF ~ppu.vblank_started /\ q.vblank_started
                     THEN <<[edge |-> "rise", at |-> at, flags |-> {"vblank_started"}]>>
                     ELSE <<>>
             fall == IF Fallen(ppu, q) # {}
                     THEN <<[edge |-> "fall", at |-> at, flags |-> Fallen(ppu, q)]>>
                     ELSE <<>>
         IN  /\ ppu' = q
             /\ hist' = hist \o rise \o fall
             /\ call' = [op |-> "step_ppu", val |-> ppu.master_cycle, ret |-> 0, idx |-> -1]
    /\ prev' = call
    /\ nops' = nops + 1
    /\ UNCHANGED <<crashed, last_ctrl, arg, oam_hits, guards>>

NextFrame ==
    \/ StepCycle

\* power-on with the address step at 1
InitPowerOn == Init /\ ppu = init(1)

SpecFrame == InitPowerOn /\ [][NextFrame]_vars

(***************************************************************************)
(* SpecDma: the bus sets the OAM address, writes OAM bytes, and writes     *)
(* the page byte arg to OAMDMA, before readiness and after it.             *)
(***************************************************************************)
InitDma ==
    /\ ppu = init(1)
    /\ crashed = FALSE
    /\ call = NoCall
    /\ prev = NoCall
    /\ nops = 0
    /\ last_ctrl = [val |-> -1, eff |-> -1]
    /\ arg \in 0 .. 255
    /\ oam_hits = EmptyMem
    /\ guards = <<>>
    /\ hist = <<>>

WriteOAMDMAPage ==
    Op("write_OAMDMA", arg, write_OAMDMA(ppu, arg)) /\ UNCHANGED last_ctrl

NextDma ==
    \/ WriteOAMADDR
    \/ WriteOAMDATA
    \/ StepTo
    \/ WriteOAMDMAPage

SpecDma == InitDma /\ [][NextDma]_vars

(***************************************************************************)
(* SpecScroll: the bus writes PPUSCROLL and PPUADDR and reads PPUSTATUS in *)
(* any order, before readiness and after it.  hist takes an entry for      *)
(* every call: the call, whether the PPU was ready when it was made, and   *)
(* the scroll registers and the toggle it left.                            *)
(***************************************************************************)
ScrollAddrVals == {\h21}

Logged(name, v, outs) ==
    /\ Call(name, v, outs, MaxSeq)
    /\ hist' = Append(hist, [op |-> name, val |-> v, ready |-> is_ready(ppu),
                              x |-> ppu'.scroll_x, y |-> ppu'.scroll_y,
                              toggle |-> ppu'.addr_latch])
    /\ UNCHANGED <<last_ctrl, guards>>

ScrollStepTo ==
    /\ ~is_ready(ppu)
    /\ Logged("step_to", READY_CYCLE + 1, Done(step_to(ppu, READY_CYCLE + 1, "none"), 0))

ScrollReadStatus == Logged("read_PPUSTATUS", 0, read_PPUSTATUS(ppu))

ScrollWriteScroll ==
    \E v \in ScrollVals : Logged("write_PPUSCROLL", v, write_PPUSCROLL(ppu, v))

ScrollWriteAddr ==
    \E v \in ScrollAddrVals : Logged("write_PPUADDR", v, write_PPUADDR(ppu, v))

NextScroll ==
    \/ ScrollStepTo
    \/ ScrollReadStatus
    \/ ScrollWriteScroll
    \/ ScrollWriteAddr

SpecScroll == InitPowerOn /\ [][NextScroll]_vars

(***************************************************************************)
(* SpecPalette: the bus sets the video address to 0x3F00 and writes the    *)
(* palette, a different byte to each of 0x3F00 .. 0x3F1F; at any point of  *)
(* that the renderer looks up the colour arg.palette_index_4_bit of the    *)
(* background or the sprite palette.                                       *)
(***************************************************************************)
\* the palette table is mirrored every 0x20 bytes
PALETTE_SIZE == \h20

InitPalette ==
    /\ ppu = init(1)
    /\ crashed = FALSE
    /\ call = NoCall
    /\ prev = NoCall
    /\ nops = 0
    /\ last_ctrl = [val |-> -1, eff |-> -1]
    /\ arg \in [is_background : BOOLEAN, palette_index_4_bit : 0 .. 15]
    /\ oam_hits = EmptyMem
    /\ guards = <<>>
    /\ hist = <<>>

PaletteAddr ==
    /\ nops < 2
    /\ Op("write_PPUADDR", IF nops = 0 THEN \h3f ELSE \h00,
          write_PPUADDR(ppu, IF nops = 0 THEN \h3f ELSE \h00))
    /\ UNCHANGED last_ctrl

PaletteData ==
    /\ nops >= 2
    /\ call.op # "get_palette_color"
    /\ Call("write_PPUDATA", \ha0 + nops - 2, write_PPUDATA(ppu, \ha0 + nops - 2),
            2 + PALETTE_SIZE)
    /\ UNCHANGED <<last_ctrl, guards, hist>>

GetPaletteColor ==
    /\ nops >= 2
    /\ call.op # "get_palette_color"
    /\ Call("get_palette_color", arg.palette_index_4_bit,
            get_palette_color(ppu, arg.is_background, arg.palette_index_4_bit),
            3 + PALETTE_SIZE)
    /\ UNCHANGED <<last_ctrl, guards, hist>>

NextPalette ==
    \/ PaletteAddr
    \/ PaletteData
    \/ GetPaletteColor

SpecPalette == InitPalette /\ [][NextPalette]_vars

(***************************************************************************)
(* SpecMirror: with video addresses a, b, c below 0x4000 the bus stores    *)
(* FillByte at c and reads c, stores MirrorByte at a, reads b, and reads c *)
(* again, setting the video address by two PPUADDR writes each time.       *)
(* hist takes an entry for every call.                                     *)
(***************************************************************************)
MirrorAddrs == {\h0000, \h2000, \h3000, \h2eff, \h3eff, \h3f00, \h3f10, \h3f20,
                \h3f04, \h3ff4, \h3fff}
FillByte == \h77
MirrorByte == \h5a

\* the two PPUADDR writes that set the video address to a
SetAddr(a) == <<[op |-> "write_PPUADDR", val |-> a \div 256],
                [op |-> "write_PPUADDR", val |-> a % 256]>>

MirrorScript(r) ==
    SetAddr(r.c) \o <<[op |-> "write_PPUDATA", val |-> FillByte]>>
    \o SetAddr(r.c) \o <<[op |-> "read_PPUDATA", val |-> 0]>>
    \o SetAddr(r.a) \o <<[op |-> "write_PPUDATA", val |-> MirrorByte]>>
    \o SetAddr(r.b) \o <<[op |-> "read_PPUDATA", val |-> 0]>>
    \o SetAddr(r.c) \o <<[op |-> "read_PPUDATA", val |-> 0]>>

InitMirror ==
    /\ arg \in [a : MirrorAddrs, b : MirrorAddrs, c : MirrorAddrs, inc : AddrSteps]
    /\ ppu = init(arg.inc)
    /\ crashed = FALSE
    /\ call = NoCall
    /\ prev = NoCall
    /\ nops = 0
    /\ last_ctrl = [val |-> -1, eff |-> -1]
    /\ oam_hits = EmptyMem
    /\ guards = <<>>
    /\ hist = <<>>

\* the next call of the script, if it is a call of name
MirrorCall(name, outs) ==
    /\ nops < Len(MirrorScript(arg))
    /\ MirrorScript(arg)[nops + 1].op = name
    /\ Call(name, MirrorScript(arg)[nops + 1].val, outs, Len(MirrorScript(arg)))
    /\ hist' = Append(hist, call')
    /\ UNCHANGED <<last_ctrl, guards>>

MirrorWriteAddr ==
    MirrorCall("write_PPUADDR", write_PPUADDR(ppu, MirrorScript(arg)[nops + 1].val))

MirrorWriteData ==
    MirrorCall("write_PPUDATA", write_PPUDATA(ppu, MirrorScript(arg)[nops + 1].val))

MirrorReadData == MirrorCall("read_PPUDATA", read_PPUDATA(ppu))

NextMirror ==
    \/ MirrorWriteAddr
    \/ MirrorWriteData
    \/ MirrorReadData

SpecMirror == InitMirror /\ [][NextMirror]_vars

(***************************************************************************)
(* Claims                                                                  *)
(***************************************************************************)
\* a step of Spec that made the call named op
Called(op) == nops' = nops + 1 /\ call'.op = op

\* C1: while the PPU is not ready, write_PPUCTRL, write_PPUMASK and
\* write_PPUSCROLL change nothing of the PPU: registers, latch, toggle,
\* addresses, VRAM and OAM are the same after the call as before.
C1_NotReadyWritesIgnored ==
    [][(/\ Called("write_PPUCTRL") \/ Called("write_PPUMASK") \/ Called("write_PPUSCROLL")
        /\ ~is_ready(ppu))
       => ppu' = ppu]_vars

\* C1 witness: at master cycle 29658 exactly, with a video address and a latch
\* already written, a MASK write and then a SCROLL write were made.
C1_Witness ==
    /\ ppu.master_cycle = READY_CYCLE
    /\ prev.op = "write_PPUMASK"
    /\ call.op = "write_PPUSCROLL"
    /\ ppu.latch # 0
    /\ ppu.latch # call.val

\* C2: an unprotected read_PPUSTATUS leaves vblank clear and the toggle 0, and
\* a further unprotected read_PPUSTATUS right after it, or after one other
\* register operation, returns bit 7 clear; a protected read_PPUSTATUS leaves
\* vblank and the toggle as they were.
C2_StatusRead ==
    [][Called("read_PPUSTATUS") =>
         IF ~ppu.protect_register
         THEN /\ ~ppu'.vblank_started
              /\ ppu'.addr_latch = 0
              /\ (call.op = "read_PPUSTATUS"
                    => BitAnd(call'.ret, PPUSTATUS_VBLANK_START) = 0)
              /\ (prev.op = "read_PPUSTATUS" /\ call.op \notin {"step_to", "set_protect"}
                    => BitAnd(call'.ret, PPUSTATUS_VBLANK_START) = 0)
         ELSE /\ ppu'.vblank_started = ppu.vblank_started
              /\ ppu'.addr_latch = ppu.addr_latch]_vars

\* C2 witness: two unprotected status reads in a row, the first returned bit 7
\* set, the second bit 7 clear.
C2_Witness ==
    /\ prev.op = "read_PPUSTATUS"
    /\ call.op = "read_PPUSTATUS"
    /\ ~ppu.protect_register
    /\ BitAnd(prev.ret, PPUSTATUS_VBLANK_START) = PPUSTATUS_VBLANK_START
    /\ BitAnd(call.ret, PPUSTATUS_VBLANK_START) = 0

Reads == {"read_PPUSTATUS", "read_PPUDATA", "read_OAMDATA"}

\* C3: while protection is active a register read (read_PPUSTATUS,
\* read_PPUDATA, read_OAMDATA) returns, leaves the whole PPU state as it was,
\* and returns what the same read returned the call before.
C3_ProtectedReads ==
    [][(nops' = nops + 1 /\ call'.op \in Reads /\ ppu.protect_register)
       => /\ ~crashed'
          /\ ppu' = ppu
          /\ (call.op = call'.op => call'.ret = call.ret)]_vars

\* C3 holds of the reads that stay inside the video memory.
C3_ProtectedReadsInVram ==
    [][(/\ nops' = nops + 1 /\ call'.op \in Reads /\ ppu.protect_register
        /\ InVram(redirect_addr(ppu.ppu_addr)))
       => /\ ~crashed'
          /\ ppu' = ppu
          /\ (call.op = call'.op => call'.ret = call.ret)]_vars

\* C4: from toggle 0, write_PPUADDR(H) and write_PPUADDR(L) leave the video
\* address at H*256+L and the toggle at 0, and a write_PPUDATA(v) right after
\* them stores v in video memory at redirect_addr(H*256+L), ready or not.
C4_AddrPairThenData ==
    [][(prev.op = "write_PPUADDR" /\ call.op = "write_PPUADDR" /\ ppu.addr_latch = 0)
       => /\ ppu.ppu_addr = prev.val * 256 + call.val
          /\ (Called("write_PPUDATA")
                => /\ ~crashed'
                   /\ InVram(redirect_addr(prev.val * 256 + call.val))
                   /\ call'.idx = redirect_addr(prev.val * 256 + call.val)
                   /\ VramAt(ppu', redirect_addr(prev.val * 256 + call.val)) = call'.val)]_vars

\* C4 holds when H*256+L is translated to an index of the video memory.
C4_AddrPairThenDataInVram ==
    [][(prev.op = "write_PPUADDR" /\ call.op = "write_PPUADDR" /\ ppu.addr_latch = 0)
       => /\ ppu.ppu_addr = prev.val * 256 + call.val
          /\ (Called("write_PPUDATA") /\ InVram(redirect_addr(prev.val * 256 + call.val))
                => /\ ~crashed'
                   /\ call'.idx = redirect_addr(prev.val * 256 + call.val)
                   /\ VramAt(ppu', redirect_addr(prev.val * 256 + call.val)) = call'.val)]_vars

\* the address step bit 2 of a PPUCTRL byte selects
StepOf(ctrl) == IF BitAnd(ctrl, PPUCTRL_VRAM_ADDR_MASK) # 0 THEN 32 ELSE 1

\* a write_PPUDATA or an unprotected read_PPUDATA that returned
DataAccess ==
    /\ nops' = nops + 1
    /\ ~crashed'
    /\ call'.op = "write_PPUDATA" \/ (call'.op = "read_PPUDATA" /\ ~ppu.protect_register)

\* C5 as stated: after every write_PPUDATA and every unprotected read_PPUDATA
\* the video address has advanced by the step bit 2 of the last CTRL write
\* selects.
C5_StepOfLastCtrlWrite ==
    [][(DataAccess /\ last_ctrl.val # -1)
       => ppu'.ppu_addr = U16(ppu.ppu_addr + StepOf(last_ctrl.val))]_vars

\* C5 amended: after every write_PPUDATA and every unprotected read_PPUDATA
\* that returns, the video address has advanced (mod 2^16) by the configured
\* step; the step is the one bit 2 of the last CTRL write made while ready
\* selects; a protected read_PPUDATA does not advance the address.
C5_StepOfLastEffectiveCtrlWrite ==
    [][/\ DataAccess => ppu'.ppu_addr = U16(ppu.ppu_addr + ppu.ppu_addr_inc)
       /\ (nops' = nops + 1 /\ last_ctrl'.eff # -1)
            => ppu'.ppu_addr_inc = StepOf(last_ctrl'.eff)
       /\ (Called("read_PPUDATA") /\ ppu.protect_register /\ ~crashed')
            => ppu'.ppu_addr = ppu.ppu_addr]_vars

\* C5 witness: a CTRL write with bit 2 set took effect and the write_PPUDATA
\* after it moved the video address by 32.
C5_Witness ==
    /\ prev.op = "write_PPUCTRL"
    /\ call.op = "write_PPUDATA"
    /\ last_ctrl.eff = prev.val
    /\ StepOf(prev.val) = 32
    /\ ppu.ppu_addr = 32

\* C6 as stated: the toggle is 0 or 1 and flips on every write to PPUSCROLL
\* or PPUADDR.
C6_FlipsOnEveryWrite ==
    [][(Called("write_PPUSCROLL") \/ Called("write_PPUADDR"))
       => /\ ppu'.addr_latch \in {0, 1}
          /\ ppu'.addr_latch = 1 - ppu.addr_latch]_vars

\* C6 amended: the toggle PPUSCROLL and PPUADDR share is always 0 or 1; it
\* flips on every write_PPUADDR and on every write_PPUSCROLL made while the
\* PPU is ready, and a write_PPUSCROLL made before that leaves it as it was.
C6_FlipsOnEveryEffectiveWrite ==
    /\ [](ppu.addr_latch \in {0, 1})
    /\ [][/\ (Called("write_PPUADDR") \/ (Called("write_PPUSCROLL") /\ is_ready(ppu)))
             => ppu'.addr_latch = 1 - ppu.addr_latch
          /\ (Called("write_PPUSCROLL") /\ ~is_ready(ppu))
             => ppu'.addr_latch = ppu.addr_latch]_vars

\* C6 witness: ready, an ADDR write took the toggle to 1 and the SCROLL write
\* after it took it back to 0, storing its byte as the Y scroll.
C6_Witness ==
    /\ is_ready(ppu)
    /\ prev.op = "write_PPUADDR"
    /\ call.op = "write_PPUSCROLL"
    /\ ppu.addr_latch = 0
    /\ ppu.scroll_y = call.val
    /\ ppu.ppu_addr = prev.val * 256

\* C7: redirect_addr takes every 16-bit address to an index of the 16KB video
\* memory, 0..0x3FFF.
C7_TranslateInRange ==
    call.op = "redirect_addr" => InVram(call.ret)

\* C7 holds of the addresses below 0x4000.
C7_TranslateInRangeBelow4000 ==
    (call.op = "redirect_addr" /\ call.val < PPU_VRAM_SIZE) => InVram(call.ret)

\* C8: for every a in [0x3000, 0x3F00), redirect_addr(a) = a - 0x1000 =
\* redirect_addr(a - 0x1000), an index in 0x2000..0x2EFF.
C8_NameTableMirror ==
    (call.op = "redirect_addr" /\ call.val >= \h3000 /\ call.val < \h3f00)
    => /\ call.ret = call.val - \h1000
       /\ call.ret = redirect_addr(call.val - \h1000)
       /\ call.ret >= \h2000 /\ call.ret <= \h2eff

\* C8 witness: 0x3EFF was translated to 0x2EFF.
C8_Witness ==
    call.op = "redirect_addr" /\ call.val = \h3eff /\ call.ret = \h2eff

\* C9: for every a with (a & 0x3F00) = 0x3F00, redirect_addr(a) =
\* redirect_addr(a & 0xFF1F); if bit 0x10 of a is set it also equals
\* redirect_addr of a with that bit cleared; and translating the result again
\* gives the same result.
C9_PaletteMirror ==
    /\ (call.op = "redirect_addr" /\ BitAnd(call.val, \h3f00) = \h3f00)
       => /\ call.ret = redirect_addr(BitAnd(call.val, \hff1f))
          /\ BitAnd(call.val, \h10) = \h10 => call.ret = redirect_addr(call.val - \h10)
    /\ (nops = 2 /\ BitAnd(prev.val, \h3f00) = \h3f00)
       => call.val = prev.ret /\ call.ret = prev.ret

\* C9 witness: 0x3FF4 was translated to 0x3F04, and 0x3F04 to itself.
C9_Witness ==
    /\ nops = 2
    /\ prev.val = \h3ff4
    /\ prev.ret = \h3f04
    /\ call.val = \h3f04
    /\ call.ret = \h3f04

\* how often index i is stored to by n write_OAMDATA calls from address start
HitsAfter(start, n, i) ==
    (n \div PPU_OAM_SIZE)
    + (IF (i - start + PPU_OAM_SIZE) % PPU_OAM_SIZE < n % PPU_OAM_SIZE THEN 1 ELSE 0)

\* C10: n write_OAMDATA calls from OAM address A leave the OAM address at
\* (A + n) mod 256 and have stored their byte once to each of the n addresses
\* A, A+1, ... (mod 256); after 256 calls the address is A again and each of
\* the 256 OAM bytes was written exactly once.
C10_OamAddrWraps ==
    call.op = "write_OAMDATA"
    => /\ ppu.oam_addr = (arg.start + nops) % PPU_OAM_SIZE
       /\ \A i \in 0 .. PPU_OAM_SIZE - 1 :
            /\ (IF i \in DOMAIN oam_hits THEN oam_hits[i] ELSE 0)
                 = HitsAfter(arg.start, nops, i)
            /\ OamAt(ppu, i) = IF HitsAfter(arg.start, nops, i) > 0 THEN arg.val ELSE 0
       /\ nops = PPU_OAM_SIZE
            => /\ ppu.oam_addr = arg.start
               /\ \A i \in 0 .. PPU_OAM_SIZE - 1 : oam_hits[i] = 1

\* C10 witness: 256 writes from address 0x80 ended at address 0x80.
C10_Witness ==
    /\ call.op = "write_OAMDATA"
    /\ nops = PPU_OAM_SIZE
    /\ arg.start = \h80
    /\ ppu.oam_addr = \h80
    /\ DOMAIN ppu.oam = 0 .. PPU_OAM_SIZE - 1

Edges(e) == {i \in DOMAIN hist : hist[i].edge = e}

\* C12: over one full frame of 262 lines of 341 dots, with no status read,
\* vblank rises exactly once, at dot 1 of line 241, and status flags come
\* down exactly once, at dot 1 of the pre-render line, vblank among them and
\* all three clear from there to the end of the frame; no cycle at any other
\* dot raises vblank or brings a flag down.
C12_FrameEdges ==
    /\ \A i \in Edges("rise") : hist[i].at = [scanline |-> 241, dot |-> 1]
    /\ \A i \in Edges("fall") : hist[i].at = [scanline |-> PRE_RENDER_SCANLINE, dot |-> 1]
    /\ ppu.master_cycle >= FrameCycles
         => /\ Cardinality(Edges("rise")) = 1
            /\ Cardinality(Edges("fall")) = 1
            /\ \A i \in Edges("fall") :
                 /\ "vblank_started" \in hist[i].flags
                 /\ \A j \in Edges("rise") : j < i
    /\ (ppu.cur_scanline = PRE_RENDER_SCANLINE /\ ppu.scanline_cycle > 1)
         => ~ppu.vblank_started /\ ~ppu.sprite_0_hit /\ ~ppu.sprite_overflow

\* C12 witness: a whole frame was stepped through, and at dot 1 of the
\* pre-render line vblank, sprite 0 hit and sprite overflow came down together.
C12_Witness ==
    /\ ppu.master_cycle = FrameCycles
    /\ ppu.cur_scanline = 0 /\ ppu.scanline_cycle = 0
    /\ \E i \in Edges("fall") :
         hist[i].flags = {"vblank_started", "sprite_0_hit", "sprite_overflow"}

\* C13: write_OAMDMA(P), ready or not, leaves _oam[i] equal to the byte of
\* system memory at P * 0x100 + i for every i in 0..255, and the OAM address
\* as it was before the call.
C13_OamDmaCopiesPage ==
    [][Called("write_OAMDMA")
       => /\ \A i \in 0 .. 255 :
               OamAt(ppu', i) = system_ram(call'.val * 256 + i)
          /\ ppu'.oam_addr = ppu.oam_addr]_vars

\* C13 witness: before readiness, with the OAM address wrapped to 0 by a
\* write_OAMDATA at 0xFF, page 0xFF was copied over the byte just written.
C13_Witness ==
    /\ prev.op = "write_OAMDATA"
    /\ call.op = "write_OAMDMA"
    /\ call.val = \hff
    /\ ~is_ready(ppu)
    /\ ppu.oam_addr = 0
    /\ OamAt(ppu, \hff) = system_ram(\hffff)
    /\ OamAt(ppu, \hff) # \h11

\* the status byte of C14, from the latch and the flags of p
C14_Byte(p) ==
    (p.latch % 32) + (IF p.sprite_0_hit THEN 64 ELSE 0)
    + (IF p.sprite_overflow THEN 32 ELSE 0) + (IF p.vblank_started THEN 128 ELSE 0)

\* C14 as stated: read_PPUSTATUS returns (latch & 0x1F) | 0x40 if sprite 0
\* hit | 0x20 if sprite overflow | 0x80 if vblank, of the state before the
\* read, the latch holds the returned byte after the read, and the low 5 bits
\* of the latch are as before.
C14_StatusWrittenBack ==
    [][Called("read_PPUSTATUS")
       => /\ call'.ret = C14_Byte(ppu)
          /\ ppu'.latch = call'.ret
          /\ ppu'.latch % 32 = ppu.latch % 32]_vars

\* C14 amended: read_PPUSTATUS returns that byte, of the state before the
\* read; with protection off the latch holds the returned byte after the
\* read, with protection on the latch is as it was; either way the low 5 bits
\* of the latch are as before.
C14_StatusWrittenBackUnprotected ==
    [][Called("read_PPUSTATUS")
       => /\ call'.ret = C14_Byte(ppu)
          /\ ~ppu.protect_register => ppu'.latch = call'.ret
          /\ ppu.protect_register => ppu'.latch = ppu.latch
          /\ ppu'.latch % 32 = ppu.latch % 32]_vars

\* C14 witness: with 0x19 in the latch and vblank set, an unprotected read
\* returned 0x99 and left 0x99 in the latch and vblank clear.
C14_Witness ==
    /\ prev.op = "write_PPUMASK"
    /\ prev.val = \h19
    /\ call.op = "read_PPUSTATUS"
    /\ call.ret = \h99
    /\ ppu.latch = \h99
    /\ ~ppu.vblank_started
    /\ ~ppu.protect_register

RegWrites == {"write_PPUCTRL", "write_PPUMASK", "write_OAMADDR", "write_OAMDATA",
              "write_PPUSCROLL", "write_PPUADDR", "write_PPUDATA", "write_OAMDMA"}

ReadyGated == {"write_PPUCTRL", "write_PPUMASK", "write_PPUSCROLL"}

\* a call of a register operation that returned
RegCall == nops' = nops + 1 /\ ~crashed' /\ call'.op \in RegWrites \cup Reads

\* the byte the call wrote or read
BusByte(c) == IF c.op \in Reads THEN c.ret ELSE c.val

\* C15 as stated: after every register operation made with protection off the
\* latch holds the byte written or read.
C15_EveryOpRecords ==
    [][(RegCall /\ ~ppu.protect_register) => ppu'.latch = BusByte(call')]_vars

\* C15 amended: after every register operation other than write_OAMDMA made
\* with protection off, and, for write_PPUCTRL, write_PPUMASK and
\* write_PPUSCROLL, with the PPU ready, the latch holds the byte written or
\* read; a write_PPUCTRL, write_PPUMASK or write_PPUSCROLL made before
\* readiness leaves the latch as it was.
C15_EffectiveOpRecords ==
    [][/\ (/\ RegCall /\ ~ppu.protect_register
           /\ call'.op # "write_OAMDMA"
           /\ call'.op \in ReadyGated => is_ready(ppu))
          => ppu'.latch = BusByte(call')
       /\ (RegCall /\ call'.op \in ReadyGated /\ ~is_ready(ppu))
          => ppu'.latch = ppu.latch]_vars

\* C15 witness: ready and unprotected, a status read left 0x80 in the latch
\* and the write_PPUCTRL(0xB3) after it left 0xB3.
C15_Witness ==
    /\ is_ready(ppu)
    /\ ~ppu.protect_register
    /\ prev.op = "read_PPUSTATUS"
    /\ prev.ret = \h80
    /\ call.op = "write_PPUCTRL"
    /\ call.val = \hb3
    /\ ppu.latch = \hb3

\* C16: no register operation sets a status flag; an unprotected
\* read_PPUSTATUS leaves sprite 0 hit and sprite overflow as they were and
\* vblank clear; every other register operation (the writes, read_OAMDATA,
\* read_PPUDATA, a protected read_PPUSTATUS) leaves all three as they were.
C16_FlagsOnlyClearedByStatusRead ==
    [][RegCall
       => /\ ppu'.vblank_started => ppu.vblank_started
          /\ ppu'.sprite_0_hit = ppu.sprite_0_hit
          /\ ppu'.sprite_overflow = ppu.sprite_overflow
          /\ (call'.op = "read_PPUSTATUS" /\ ~ppu.protect_register)
               => ~ppu'.vblank_started
          /\ ~(call'.op = "read_PPUSTATUS" /\ ~ppu.protect_register)
               => ppu'.vblank_started = ppu.vblank_started]_vars

\* C16 witness: with vblank and sprite 0 hit set, a read_PPUDATA left both
\* set, and the unprotected read_PPUSTATUS after it cleared vblank only.
C16_Witness ==
    /\ prev.op = "read_PPUDATA"
    /\ call.op = "read_PPUSTATUS"
    /\ call.ret = \hc0
    /\ ~ppu.protect_register
    /\ ~ppu.vblank_started
    /\ ppu.sprite_0_hit

\* the calls i, i+1, ... of hist are the operations ops, in this order
OpsAt(i, ops) ==
    /\ i + Len(ops) - 1 <= Len(hist)
    /\ \A k \in 1 .. Len(ops) : hist[i + k - 1].op = ops[k]

\* C17: with the PPU ready, the write_PPUSCROLL(a) right after an unprotected
\* read_PPUSTATUS sets the X scroll to a and leaves the Y scroll, whatever
\* SCROLL and ADDR writes came before the read; a second write_PPUSCROLL(b)
\* right after it sets the Y scroll to b and leaves the X scroll; with a
\* write_PPUADDR between the two, the second sets the X scroll to b and leaves
\* the Y scroll.
C17_ScrollAfterStatus ==
    \A i \in DOMAIN hist :
        /\ (OpsAt(i, <<"read_PPUSTATUS", "write_PPUSCROLL">>) /\ hist[i + 1].ready)
             => /\ hist[i + 1].x = hist[i + 1].val
                /\ hist[i + 1].y = hist[i].y
        /\ (/\ OpsAt(i, <<"read_PPUSTATUS", "write_PPUSCROLL", "write_PPUSCROLL">>)
            /\ hist[i + 1].ready)
             => /\ hist[i + 2].y = hist[i + 2].val
                /\ hist[i + 2].x = hist[i + 1].val
        /\ (/\ OpsAt(i, <<"read_PPUSTATUS", "write_PPUSCROLL", "write_PPUADDR",
                           "write_PPUSCROLL">>)
            /\ hist[i + 1].ready)
             => /\ hist[i + 3].x = hist[i + 3].val
                /\ hist[i + 3].y = hist[i].y

\* C17 witness: ready, after one write_PPUSCROLL (toggle 1) a status read,
\* write_PPUSCROLL(0x0A), write_PPUADDR, write_PPUSCROLL(0x05) left the X
\* scroll at 0x05 and the Y scroll at 0.
C17_Witness ==
    /\ Len(hist) = 6
    /\ OpsAt(1, <<"step_to", "write_PPUSCROLL", "read_PPUSTATUS", "write_PPUSCROLL",
                  "write_PPUADDR", "write_PPUSCROLL">>)
    /\ hist[2].toggle = 1
    /\ hist[4].val = \h0a
    /\ hist[4].x = \h0a
    /\ hist[6].val = \h05
    /\ ppu.scroll_x = \h05
    /\ ppu.scroll_y = 0

\* C18: get_palette_color(is_background, i) returns the byte of video memory
\* at 0x3F00 when i = 0, and for i in 1..15 the byte at
\* redirect_addr(0x3F00 | i) for the background, redirect_addr(0x3F10 | i)
\* for sprites.
C18_PaletteEntry ==
    call.op = "get_palette_color"
    => call.ret = VramAt(ppu, IF arg.palette_index_4_bit = 0 THEN \h3f00
                              ELSE redirect_addr((IF arg.is_background THEN \h3f00
                                                  ELSE \h3f10)
                                                 + arg.palette_index_4_bit))

\* C18 holds of palette index 0.
C18_BackdropEntry ==
    (call.op = "get_palette_color" /\ arg.palette_index_4_bit = 0)
    => call.ret = VramAt(ppu, \h3f00)

\* C19: every access of video memory by write_PPUDATA and read_PPUDATA is at
\* an index in 0 .. 0x3FFF of the 16KB array.
C19_DataAccessInVram ==
    call.op \in {"write_PPUDATA", "read_PPUDATA"} => InVram(call.idx) /\ ~crashed

\* C19 holds while the video address is translated to an index below 0x4000.
C19_DataAccessInVramBelow4000 ==
    [][(/\ nops' = nops + 1 /\ call'.op \in {"write_PPUDATA", "read_PPUDATA"}
        /\ ppu.ppu_addr < PPU_VRAM_SIZE)
       => InVram(call'.idx) /\ ~crashed']_vars

\* C20: for video addresses a, b, c below 0x4000, after the video address was
\* set to a and v written through PPUDATA, the first read_PPUDATA with the
\* video address set to b returns v if redirect_addr(a) = redirect_addr(b);
\* and a read at c returns after the write what it returned before it
\* unless redirect_addr(c) = redirect_addr(a).
C20_MirrorRoundTrip ==
    Len(hist) = 15
    => /\ hist[6].op = "read_PPUDATA" /\ hist[9].op = "write_PPUDATA"
       /\ hist[12].op = "read_PPUDATA" /\ hist[15].op = "read_PPUDATA"
       /\ ~crashed
       /\ hist[6].ret = FillByte
       /\ redirect_addr(arg.a) = redirect_addr(arg.b) => hist[12].ret = hist[9].val
       /\ hist[15].ret # hist[6].ret => redirect_addr(arg.c) = redirect_addr(arg.a)

\* C20 witness: 0x5A written at 0x3F10 was read back at 0x3F00 and at
\* 0x3F20, where 0x77 was read before the write.
C20_Witness ==
    /\ Len(hist) = 15
    /\ arg.a = \h3f10 /\ arg.b = \h3f00 /\ arg.c = \h3f20
    /\ hist[6].ret = \h77
    /\ hist[12].ret = \h5a
    /\ hist[15].ret = \h5a

====
